---- MODULE Spec2Model ----
(***************************************************************************)
(* Model of location_history_json_converter.py: main, _extract_locations   *)
(* (its inner _traverse), _parse_latlng and convert_to_geojson.            *)
(*                                                                         *)
(* JSON values are tagged records.  Strings are sequences of one-character *)
(* strings, so that cleaning, splitting, float parsing, substring tests    *)
(* and iteration over a string are computed as Python computes them.       *)
(* A Python dict keeps insertion order: an object is a sequence of keys    *)
(* with the sequence of their values.                                      *)
(***************************************************************************)
EXTENDS Integers, Sequences, FiniteSets, TLC

(* ---------------------------------------------------------------- bounds *)
\* longest timelinePath list of a generated input
MaxPath == 2
\* deepest chain of nested children below the root of a generated input
MaxDepth == 2

(* ----------------------------------------------------------- JSON values *)
Null == [t |-> "null"]
Num(n) == [t |-> "num", n |-> n]
Str(s) == [t |-> "str", s |-> s]
List(l) == [t |-> "list", items |-> l]
Obj(k, v) == [t |-> "obj", keys |-> k, vals |-> v]

\* a Python float, kept exact as num / den
Float(n, d) == [t |-> "float", num |-> n, den |-> d]
\* Python's None
None == [t |-> "none"]

\* the characters of the dict keys and string literals the program uses
KeyChars ==
    [latitudeE7 |-> <<"l","a","t","i","t","u","d","e","E","7">>,
     longitudeE7 |-> <<"l","o","n","g","i","t","u","d","e","E","7">>,
     timestampMs |-> <<"t","i","m","e","s","t","a","m","p","M","s">>,
     placeLocation |-> <<"p","l","a","c","e","L","o","c","a","t","i","o","n">>,
     latLng |-> <<"l","a","t","L","n","g">>,
     startTime |-> <<"s","t","a","r","t","T","i","m","e">>,
     endTime |-> <<"e","n","d","T","i","m","e">>,
     timelinePath |-> <<"t","i","m","e","l","i","n","e","P","a","t","h">>,
     point |-> <<"p","o","i","n","t">>,
     time |-> <<"t","i","m","e">>,
     child |-> <<"c","h","i","l","d">>]

\* the default timestamp "1970-01-01T00:00:00Z"
EpochDefault ==
    Str(<<"1","9","7","0","-","0","1","-","0","1","T",
          "0","0",":","0","0",":","0","0","Z">>)

(* ------------------------------------------------ Python's own operators *)
\* index of key k in the dict o, 0 when absent
KeyIndex(o, k) ==
    IF \E i \in 1..Len(o.keys) : o.keys[i] = k
    THEN CHOOSE i \in 1..Len(o.keys) : o.keys[i] = k
    ELSE 0

\* needle is a contiguous part of hay (str.__contains__)
IsSubstring(needle, hay) ==
    \E i \in 0..(Len(hay) - Len(needle)) :
        \A j \in 1..Len(needle) : hay[i + j] = needle[j]

\* `k in x` raises TypeError when x is None or a number
InRaises(x) == x.t \in {"null", "num"}

\* `k in x` for a dict (key), a str (substring) or a list (element)
In(k, x) ==
    CASE x.t = "obj" -> KeyIndex(x, k) # 0
      [] x.t = "str" -> IsSubstring(KeyChars[k], x.s)
      [] x.t = "list" ->
            \E i \in 1..Len(x.items) :
                x.items[i].t = "str" /\ x.items[i].s = KeyChars[k]
      [] OTHER -> FALSE

\* `x[k]` with a str key raises TypeError unless x is a dict (a KeyError
\* cannot happen here: every use is guarded by `k in x`)
SubscriptRaises(x, k) == x.t # "obj" \/ KeyIndex(x, k) = 0

Subscript(x, k) == x.vals[KeyIndex(x, k)]

\* dict.get(k, default)
Get(o, k, default) == IF KeyIndex(o, k) # 0 THEN Subscript(o, k) ELSE default

\* `for path in x` raises TypeError when x is None or a number
IterRaises(x) == x.t \in {"null", "num"}

\* the items `for path in x` yields: list elements, the characters of a
\* str, the keys of a dict
Iter(x) ==
    CASE x.t = "list" -> x.items
      [] x.t = "str" -> [i \in 1..Len(x.s) |-> Str(<<x.s[i]>>)]
      [] x.t = "obj" -> [i \in 1..Len(x.keys) |-> Str(KeyChars[x.keys[i]])]
      [] OTHER -> <<>>

\* `v / 1e7` raises TypeError unless v is a number
DivRaises(v) == v.t # "num"

E7Scale == 10000000

DivE7(v) == Float(v.n, E7Scale)

(* ----------------------------------------------------------- _parse_latlng *)
DigitVal ==
    [c \in {"0","1","2","3","4","5","6","7","8","9"} |->
        CASE c = "0" -> 0 [] c = "1" -> 1 [] c = "2" -> 2 [] c = "3" -> 3
          [] c = "4" -> 4 [] c = "5" -> 5 [] c = "6" -> 6 [] c = "7" -> 7
          [] c = "8" -> 8 [] c = "9" -> 9]

IsDigit(c) == c \in DOMAIN DigitVal

\* re.sub(r'[^\d.,\-]', '', latlng.replace('°', ''))
KeptChar(c) == IsDigit(c) \/ c \in {".", ",", "-"}

Clean(s) == SelectSeq(s, KeptChar)

\* str.split(','): the pieces between the commas, empty pieces included
RECURSIVE SplitFrom(_, _, _)
SplitFrom(s, i, cur) ==
    IF i > Len(s) THEN <<cur>>
    ELSE IF s[i] = "," THEN <<cur>> \o SplitFrom(s, i + 1, <<>>)
    ELSE SplitFrom(s, i + 1, Append(cur, s[i]))

Split(s) == SplitFrom(s, 1, <<>>)

AllDigits(s) == \A i \in 1..Len(s) : IsDigit(s[i])

\* position of the first ".", 0 when there is none
DotIndex(s) ==
    IF \E i \in 1..Len(s) : s[i] = "."
    THEN CHOOSE i \in 1..Len(s) : s[i] = "." /\ \A j \in 1..(i - 1) : s[j] # "."
    ELSE 0

Unsigned(s) == IF Len(s) > 0 /\ s[1] = "-" THEN Tail(s) ELSE s

IntPart(u) == IF DotIndex(u) = 0 THEN u ELSE SubSeq(u, 1, DotIndex(u) - 1)

FracPart(u) == IF DotIndex(u) = 0 THEN <<>> ELSE SubSeq(u, DotIndex(u) + 1, Len(u))

\* float(s) succeeds on a cleaned piece: an optional "-", then digits with
\* at most one ".", at least one digit in all
IsFloat(s) ==
    LET u == Unsigned(s) IN
        /\ AllDigits(IntPart(u))
        /\ AllDigits(FracPart(u))
        /\ Len(IntPart(u)) + Len(FracPart(u)) > 0

RECURSIVE DigitsValue(_)
DigitsValue(s) ==
    IF s = <<>> THEN 0
    ELSE 10 * DigitsValue(SubSeq(s, 1, Len(s) - 1)) + DigitVal[s[Len(s)]]

RECURSIVE Pow10(_)
Pow10(n) == IF n = 0 THEN 1 ELSE 10 * Pow10(n - 1)

ToFloat(s) ==
    LET u == Unsigned(s)
        mag == DigitsValue(IntPart(u) \o FracPart(u))
    IN  Float(IF u # s THEN 0 - mag ELSE mag, Pow10(Len(FracPart(u))))

\* the pair (lat, lng), or (None, None) after any exception: a value that
\* is no str has no replace method (AttributeError, caught)
ParseLatLng(latlng) ==
    IF latlng.t # "str" THEN <<None, None>>
    ELSE LET parts == Split(Clean(latlng.s)) IN
        IF Len(parts) # 2 THEN <<None, None>>
        ELSE IF IsFloat(parts[1]) /\ IsFloat(parts[2])
             THEN <<ToFloat(parts[1]), ToFloat(parts[2])>>
             ELSE <<None, None>>

(* ------------------------------------------------------ _extract_locations *)
PointRec(coords, ts) == [type |-> "Point", coordinates |-> coords, timestamp |-> ts]

LineRec(coords, st, et) ==
    [type |-> "LineString", coordinates |-> coords,
     timestamps |-> [startTime |-> st, endTime |-> et]]

\* what one call of _traverse does before it recurses
Outcome(r, p, l) == [raised |-> r, pts |-> p, lns |-> l]

\* a dispatch that tests "timelinePath" before the two point shapes
ShapePathFirst(obj) ==
    IF In("timelinePath", obj) THEN "path"
    ELSE IF In("latitudeE7", obj) /\ In("longitudeE7", obj) THEN "e7"
    ELSE IF In("placeLocation", obj) /\ InRaises(Subscript(obj, "placeLocation"))
         THEN "raise"
    ELSE IF In("placeLocation", obj) /\ In("latLng", Subscript(obj, "placeLocation"))
         THEN "place"
    ELSE "none"

\* which branch of the if / elif / elif chain the dict obj takes, "none"
\* when no test holds, "raise" when the second test raises TypeError
Shape(obj) ==
    IF In("latitudeE7", obj) /\ In("longitudeE7", obj) THEN "e7"
    ELSE IF In("placeLocation", obj) /\ InRaises(Subscript(obj, "placeLocation"))
         THEN "raise"
    ELSE IF In("placeLocation", obj) /\ In("latLng", Subscript(obj, "placeLocation"))
         THEN "place"
    ELSE IF In("timelinePath", obj) THEN "path"
    ELSE "none"

\* the branch at line 74
VisitE7(obj) ==
    IF DivRaises(Subscript(obj, "longitudeE7")) \/ DivRaises(Subscript(obj, "latitudeE7"))
    THEN Outcome(TRUE, <<>>, <<>>)
    ELSE Outcome(FALSE,
                 <<PointRec(<<DivE7(Subscript(obj, "longitudeE7")),
                              DivE7(Subscript(obj, "latitudeE7"))>>,
                            Get(obj, "timestampMs", EpochDefault))>>,
                 <<>>)

\* the branch at line 80
VisitPlace(obj) ==
    LET pl == Subscript(obj, "placeLocation") IN
    IF SubscriptRaises(pl, "latLng") THEN Outcome(TRUE, <<>>, <<>>)
    ELSE LET ll == ParseLatLng(Subscript(pl, "latLng")) IN
        IF ll[1] # None /\ ll[2] # None
        THEN Outcome(FALSE,
                     <<PointRec(<<ll[2], ll[1]>>, Get(obj, "startTime", EpochDefault))>>,
                     <<>>)
        ELSE Outcome(FALSE, <<>>, <<>>)

\* the locals of the timelinePath branch while its loop runs: lat and lng
\* are unbound until the first `lat, lng = _parse_latlng(...)`
LoopStart ==
    [bound |-> FALSE, lat |-> None, lng |-> None,
     line_points |-> <<>>, pts |-> <<>>, raised |-> FALSE]

\* a loop body that appends [lat, lng] instead of [lng, lat]
PathPointSwapped(st, path) ==
    IF ~In("point", path) THEN st
    ELSE IF SubscriptRaises(path, "point") THEN [st EXCEPT !.raised = TRUE]
    ELSE LET ll == ParseLatLng(Subscript(path, "point")) IN
        [st EXCEPT !.bound = TRUE, !.lat = ll[1], !.lng = ll[2],
                   !.line_points = IF ll[1] # None /\ ll[2] # None
                                   THEN Append(@, <<ll[1], ll[2]>>) ELSE @]

\* lines 95-98: the "point" part of one loop iteration
PathPoint(st, path) ==
    IF ~In("point", path) THEN st
    ELSE IF SubscriptRaises(path, "point") THEN [st EXCEPT !.raised = TRUE]
    ELSE LET ll == ParseLatLng(Subscript(path, "point")) IN
        [st EXCEPT !.bound = TRUE, !.lat = ll[1], !.lng = ll[2],
                   !.line_points = IF ll[1] # None /\ ll[2] # None
                                   THEN Append(@, <<ll[2], ll[1]>>) ELSE @]

\* lines 99-104: the "time" part; reading an unbound lat or lng raises
\* UnboundLocalError, .get on a str or list raises AttributeError
PathTime(st, path) ==
    IF st.raised \/ ~In("time", path) THEN st
    ELSE IF ~st.bound \/ path.t # "obj" THEN [st EXCEPT !.raised = TRUE]
    ELSE [st EXCEPT !.pts = Append(@, PointRec(<<st.lng, st.lat>>,
                                               Get(path, "time", EpochDefault)))]

\* one iteration of `for path in obj["timelinePath"]`
PathStep(st, path) ==
    IF st.raised THEN st
    ELSE IF InRaises(path) THEN [st EXCEPT !.raised = TRUE]
    ELSE PathTime(PathPoint(st, path), path)

RECURSIVE PathLoop(_, _, _)
PathLoop(st, elems, i) ==
    IF i > Len(elems) THEN st ELSE PathLoop(PathStep(st, elems[i]), elems, i + 1)

\* the branch at line 88
VisitPath(obj) ==
    LET tp == Subscript(obj, "timelinePath") IN
    IF IterRaises(tp) THEN Outcome(TRUE, <<>>, <<>>)
    ELSE LET st == PathLoop(LoopStart, Iter(tp), 1) IN
        IF st.raised THEN Outcome(TRUE, st.pts, <<>>)
        ELSE Outcome(FALSE, st.pts,
                     IF st.line_points # <<>>
                     THEN <<LineRec(st.line_points,
                                    Get(obj, "startTime", EpochDefault),
                                    Get(obj, "endTime", EpochDefault))>>
                     ELSE <<>>)

\* lines 72-110 for one node
Visit(obj) ==
    IF obj.t # "obj" THEN Outcome(FALSE, <<>>, <<>>)
    ELSE CASE Shape(obj) = "e7" -> VisitE7(obj)
           [] Shape(obj) = "place" -> VisitPlace(obj)
           [] Shape(obj) = "path" -> VisitPath(obj)
           [] Shape(obj) = "raise" -> Outcome(TRUE, <<>>, <<>>)
           [] OTHER -> Outcome(FALSE, <<>>, <<>>)

\* the values _traverse recurses into, in order (lines 113-119)
Children(obj) ==
    CASE obj.t = "obj" -> obj.vals
      [] obj.t = "list" -> obj.items
      [] OTHER -> <<>>

(* ------------------------------------------------------ convert_to_geojson *)
PointFeature(p) ==
    [type |-> "Feature",
     geometry |-> [type |-> p.type, coordinates |-> p.coordinates],
     properties |-> [timestamp |-> p.timestamp]]

LineFeature(l) ==
    [type |-> "Feature",
     geometry |-> [type |-> l.type, coordinates |-> l.coordinates],
     properties |-> [startTime |-> l.timestamps.startTime,
                     endTime |-> l.timestamps.endTime]]

\* an assembler that puts the line features first
ConvertLinesFirst(pts, lns) ==
    [type |-> "FeatureCollection",
     features |-> [i \in 1..Len(lns) |-> LineFeature(lns[i])]
                  \o [i \in 1..Len(pts) |-> PointFeature(pts[i])]]

ConvertToGeojson(pts, lns) ==
    [type |-> "FeatureCollection",
     features |-> [i \in 1..Len(pts) |-> PointFeature(pts[i])]
                  \o [i \in 1..Len(lns) |-> LineFeature(lns[i])]]

(* ------------------------------------------------------------------ main *)
\* line 171
SamePaths(a) == a.input = a.output

\* a main that never takes the "no recognizable keys" exit
NoRecordsNever(pts, lns) == FALSE

\* line 193
NoRecords(pts, lns) == pts = <<>> /\ lns = <<>>

(* ------------------------------------------------------ the input documents *)
\* a key left out of a generated dict
Absent == [t |-> "absent"]

IsPresent(p) == p[2] # Absent

\* the dict with the given <<key, value>> pairs, in order, without the Absent ones
MkObj(pairs) ==
    LET kept == SelectSeq(pairs, IsPresent) IN
        Obj([i \in 1..Len(kept) |-> kept[i][1]], [i \in 1..Len(kept) |-> kept[i][2]])

\* "5.5°, 1°" and "-1,.5" parse; "5°" has one part, "1,-" no second float
GoodA == Str(<<"5", ".", "5", "°", ",", " ", "1", "°">>)
GoodB == Str(<<"-", "1", ",", ".", "5">>)
BadOne == Str(<<"5", "°">>)
BadNum == Str(<<"1", ",", "-">>)

TimeA == Str(<<"t", "1">>)
StartA == Str(<<"s">>)
EndA == Str(<<"e">>)
MsA == Str(<<"1", "0", "0", "0">>)
LatA == Num(532035733)
LngA == Num(57900171)

\* timelinePath elements: a "point" that parses, one that does not, or none,
\* each with or without a "time"
PathElems ==
    {MkObj(<<<<"point", p>>, <<"time", t>>>>) :
        p \in {Absent, GoodA, GoodB, BadOne}, t \in {Absent, TimeA}}

PathLists == UNION {[1..n -> PathElems] : n \in 0..MaxPath}

\* dicts that combine the recognised keys in every way
E7Rows ==
    {<<Absent, Absent, Absent>>, <<LatA, LngA, MsA>>, <<LatA, LngA, Absent>>,
     <<Str(<<"5">>), LngA, Absent>>}

PlaceVals == {Absent, MkObj(<<<<"latLng", GoodA>>>>), MkObj(<<<<"latLng", BadNum>>>>)}

TimeRows == {<<Absent, Absent>>, <<StartA, EndA>>}

RichNodes ==
    {MkObj(<<<<"latitudeE7", e[1]>>, <<"longitudeE7", e[2]>>, <<"timestampMs", e[3]>>,
             <<"placeLocation", pl>>, <<"startTime", tr[1]>>, <<"endTime", tr[2]>>,
             <<"timelinePath", tp>>>>) :
        e \in E7Rows, pl \in PlaceVals, tr \in TimeRows,
        tp \in {Absent} \cup {List(l) : l \in PathLists}}

\* values of unexpected types under the recognised keys
OddPlaces ==
    {Null, Num(1), Str(KeyChars.latLng), Str(<<"x">>), List(<<Str(KeyChars.latLng)>>),
     List(<<>>), MkObj(<<<<"latLng", Num(1)>>>>), MkObj(<<<<"latLng", Null>>>>),
     MkObj(<<<<"child", Null>>>>)}

OddPaths ==
    {Null, Num(1), Str(KeyChars.time), Str(KeyChars.point),
     MkObj(<<<<"point", GoodA>>>>), MkObj(<<<<"child", GoodA>>>>),
     List(<<Null>>), List(<<Num(1)>>), List(<<Str(KeyChars.point)>>),
     List(<<Str(KeyChars.time)>>), List(<<Str(<<"x">>)>>),
     List(<<List(<<Str(KeyChars.point)>>)>>), List(<<List(<<Str(KeyChars.time)>>)>>),
     List(<<List(<<>>)>>), List(<<MkObj(<<<<"point", Num(1)>>>>)>>),
     List(<<MkObj(<<<<"point", GoodA>>>>), Null>>)}

OddNodes ==
    {MkObj(<<<<"placeLocation", pl>>, <<"timelinePath", tp>>>>) :
        pl \in OddPlaces, tp \in {Absent, List(<<MkObj(<<<<"point", GoodA>>>>)>>)}}
    \cup {MkObj(<<<<"latitudeE7", e[1]>>, <<"longitudeE7", e[2]>>, <<"timelinePath", tp>>>>) :
        e \in {<<Absent, Absent>>, <<LatA, LngA>>, <<LatA, Null>>, <<LatA, Absent>>},
        tp \in OddPaths}
    \cup {Null, Num(1), Str(KeyChars.latLng), List(<<>>), Obj(<<>>, <<>>)}

\* documents with records nested below matched, dropped and unmatched nodes
SmallLeaves ==
    {MkObj(<<<<"latitudeE7", LatA>>, <<"longitudeE7", LngA>>>>),
     MkObj(<<<<"placeLocation", MkObj(<<<<"latLng", GoodB>>>>)>>>>),
     Num(1)}

SmallParents ==
    {<<<<"latitudeE7", LatA>>, <<"longitudeE7", LngA>>>>,
     <<<<"placeLocation", MkObj(<<<<"latLng", BadOne>>>>)>>>>,
     <<<<"timelinePath", List(<<MkObj(<<<<"point", GoodA>>, <<"time", TimeA>>>>)>>)>>>>,
     <<<<"timelinePath", List(<<MkObj(<<<<"time", TimeA>>>>)>>)>>>>,
     <<>>}

RECURSIVE NestTree(_)
NestTree(d) ==
    IF d = 0 THEN SmallLeaves
    ELSE SmallLeaves
         \cup {MkObj(p \o <<<<"child", c>>>>) : p \in SmallParents, c \in NestTree(d - 1)}
         \cup {List(<<c, MkObj(<<<<"latitudeE7", LngA>>, <<"longitudeE7", LatA>>>>)>>) :
                 c \in NestTree(d - 1)}

Inputs == RichNodes \cup OddNodes \cup NestTree(MaxDepth)

Args ==
    {[input |-> "history.json", output |-> "out.geojson"],
     [input |-> "history.json", output |-> "history.json"]}

(* --------------------------------------------------------------- the run *)
VARIABLES
    pc,            \* where main is: start, read, parse, extract, write, done
    args,          \* the two positional arguments
    exitStatus,    \* the process's exit status, -1 while it runs
    inputOpened,   \* open(args.input, "r") was called
    outputOpened,  \* open(args.output, "w") was called
    output,        \* what json.dump wrote, None when nothing
    data,          \* json.loads' result, Absent before
    stack,         \* the pending _traverse calls, innermost first
    points, lines, \* _extract_locations' two lists
    visited,       \* the tree positions _traverse was called on, in order
    last,          \* the latest _traverse call: its node and what it did
    found,         \* every record appended so far with its node's position, in order
    trace          \* the steps of main that succeeded, in order

vars ==
    <<pc, args, exitStatus, inputOpened, outputOpened, output, data, stack,
      points, lines, visited, last, found, trace>>

NoVisit == [path |-> <<>>, node |-> Absent, raised |-> FALSE, pts |-> <<>>, lns |-> <<>>]

Init ==
    /\ pc = "start"
    /\ args \in Args
    /\ exitStatus = -1
    /\ inputOpened = FALSE
    /\ outputOpened = FALSE
    /\ output = None
    /\ data = Absent
    /\ stack = <<>>
    /\ points = <<>>
    /\ lines = <<>>
    /\ visited = <<>>
    /\ last = NoVisit
    /\ found = <<>>
    /\ trace = <<>>

\* lines 171-173: arg_parser.error prints the usage and exits with status 2
CheckArgs ==
    /\ pc = "start"
    /\ IF SamePaths(args)
       THEN pc' = "done" /\ exitStatus' = 2 /\ trace' = trace
       ELSE pc' = "read" /\ exitStatus' = exitStatus /\ trace' = Append(trace, "compared")
    /\ UNCHANGED <<args, inputOpened, outputOpened, output, data, stack, points, lines,
                   visited, last, found>>

\* lines 175-180: main returns None after an OSError, so sys.exit(None) gives 0
ReadInput ==
    /\ pc = "read"
    /\ inputOpened' = TRUE
    /\ \E ok \in BOOLEAN :
        IF ok
        THEN pc' = "parse" /\ exitStatus' = exitStatus /\ trace' = Append(trace, "read")
        ELSE pc' = "done" /\ exitStatus' = 0 /\ trace' = trace
    /\ UNCHANGED <<args, outputOpened, output, data, stack, points, lines, visited, last, found>>

\* lines 182-183, 188-191: the text is some JSON document; _traverse(data) is pending
ParseOk ==
    /\ pc = "parse"
    /\ \E d \in Inputs :
        /\ data' = d
        /\ stack' = <<[path |-> <<>>, node |-> d]>>
    /\ pc' = "extract"
    /\ trace' = Append(trace, "parsed")
    /\ UNCHANGED <<args, exitStatus, inputOpened, outputOpened, output, points, lines,
                   visited, last, found>>

\* lines 184-186: the text is no JSON
ParseFail ==
    /\ pc = "parse"
    /\ pc' = "done"
    /\ exitStatus' = 0
    /\ UNCHANGED <<args, inputOpened, outputOpened, output, data, stack, points, lines,
                   visited, last, found, trace>>

\* one call of _traverse (lines 71-119): the node's records are appended and
\* its children become the next calls, in order; an exception it raises is
\* caught nowhere, so the process ends with a traceback and status 1
TraverseStep ==
    /\ pc = "extract"
    /\ stack # <<>>
    /\ LET top == Head(stack)
           out == Visit(top.node)
           kids == Children(top.node)
       IN  /\ points' = points \o out.pts
           /\ lines' = lines \o out.lns
           /\ visited' = Append(visited, top.path)
           /\ last' = [path |-> top.path, node |-> top.node, raised |-> out.raised,
                       pts |-> out.pts, lns |-> out.lns]
           /\ found' = found \o [i \in 1..Len(out.pts) |-> [path |-> top.path, rec |-> out.pts[i]]]
                              \o [i \in 1..Len(out.lns) |-> [path |-> top.path, rec |-> out.lns[i]]]
           /\ IF out.raised
              THEN pc' = "done" /\ exitStatus' = 1 /\ stack' = <<>>
              ELSE /\ pc' = pc
                   /\ exitStatus' = exitStatus
                   /\ stack' = [i \in 1..Len(kids) |->
                                   [path |-> Append(top.path, i), node |-> kids[i]]]
                               \o Tail(stack)
    /\ UNCHANGED <<args, inputOpened, outputOpened, output, data, trace>>

\* lines 122, 191-195: _extract_locations returns, main looks at the two lists
ExtractReturn ==
    /\ pc = "extract"
    /\ stack = <<>>
    /\ IF NoRecords(points, lines)
       THEN pc' = "done" /\ exitStatus' = 0 /\ trace' = trace
       ELSE pc' = "write" /\ exitStatus' = exitStatus /\ trace' = Append(trace, "extracted")
    /\ UNCHANGED <<args, inputOpened, outputOpened, output, data, stack, points, lines,
                   visited, last, found>>

\* lines 197-202 and the return at the end of main: status 0 either way
WriteOutput ==
    /\ pc = "write"
    /\ outputOpened' = TRUE
    /\ \E ok \in BOOLEAN :
        output' = IF ok THEN ConvertToGeojson(points, lines) ELSE output
    /\ pc' = "done"
    /\ exitStatus' = 0
    /\ UNCHANGED <<args, inputOpened, data, stack, points, lines, visited, last, found, trace>>

Next ==
    \/ CheckArgs
    \/ ReadInput
    \/ ParseOk
    \/ ParseFail
    \/ TraverseStep
    \/ ExtractReturn
    \/ WriteOutput

Spec == Init /\ [][Next]_vars

(* ------------------------------------------------- vocabulary of the claims *)
HasKey(n, k) == n.t = "obj" /\ KeyIndex(n, k) # 0

HasE7Keys(n) == HasKey(n, "latitudeE7") /\ HasKey(n, "longitudeE7")

HasLatLng(n) ==
    HasKey(n, "placeLocation") /\ HasKey(Subscript(n, "placeLocation"), "latLng")

\* the strings of the inputs that are well-formed "lat, lng" strings, with
\* the degrees they denote, written out by hand
IsGood(v) == v.t = "str" /\ (v.s = GoodA.s \/ v.s = GoodB.s)

Degrees(v) ==
    IF v.s = GoodA.s THEN [lat |-> Float(55, 10), lng |-> Float(1, 1)]
    ELSE [lat |-> Float(-1, 1), lng |-> Float(5, 10)]

ElemLngLat(e) ==
    <<Degrees(Subscript(e, "point")).lng, Degrees(Subscript(e, "point")).lat>>

GoodElem(e) == HasKey(e, "point") /\ IsGood(Subscript(e, "point"))

HasTime(e) == HasKey(e, "time")

\* the latest call handled a dict as a timeline path whose value is a list
PathVisit ==
    /\ last.node.t = "obj"
    /\ Shape(last.node) = "path"
    /\ Subscript(last.node, "timelinePath").t = "list"

PathItems == Subscript(last.node, "timelinePath").items

NoNone(pair) == pair[1] # None /\ pair[2] # None

\* p comes no later than q in a depth-first, parent-first walk
PathLE(p, q) ==
    \/ /\ Len(p) <= Len(q)
       /\ \A i \in 1..Len(p) : p[i] = q[i]
    \/ \E i \in 1..Len(p) :
        /\ i <= Len(q)
        /\ p[i] < q[i]
        /\ \A j \in 1..(i - 1) : p[j] = q[j]

RECURSIVE AllPaths(_, _)
AllPaths(v, p) ==
    {p} \cup UNION {AllPaths(Children(v)[i], Append(p, i)) : i \in 1..Len(Children(v))}

RECURSIVE NodeAt(_, _)
NodeAt(v, p) == IF p = <<>> THEN v ELSE NodeAt(Children(v)[Head(p)], Tail(p))

NumericE7(n) ==
    /\ HasE7Keys(n)
    /\ Subscript(n, "latitudeE7").t = "num"
    /\ Subscript(n, "longitudeE7").t = "num"

Pipeline == <<"compared", "read", "parsed", "extracted">>

(* ------------------------------------------------------------------ claims *)

\* C1: every record in points or lines, and every Feature written, has
\* coordinates without a null component; a record whose lat/lng string did
\* not parse is dropped, the Point of a "time" element included.
C1_NoNullCoordinates ==
    /\ \A i \in 1..Len(points) : NoNone(points[i].coordinates)
    /\ \A i \in 1..Len(lines) :
        \A j \in 1..Len(lines[i].coordinates) : NoNone(lines[i].coordinates[j])
    /\ output # None =>
        \A i \in 1..Len(points) : NoNone(output.features[i].geometry.coordinates)

\* C2: the output file is opened only after the paths were found different,
\* the input was read, parsed, and extraction returned a record, in that
\* order; in every other run it is never opened or written, and with
\* identical paths the input is not opened either.
C2_OutputOnlyAfterPipeline ==
    /\ outputOpened =>
        /\ trace = Pipeline
        /\ args.input # args.output
        /\ inputOpened
        /\ data # Absent
        /\ stack = <<>>
        /\ ~last.raised
        /\ points # <<>> \/ lines # <<>>
    /\ output # None => outputOpened
    /\ (pc = "done" /\ trace # Pipeline) => ~outputOpened /\ output = None
    /\ args.input = args.output => ~inputOpened /\ ~outputOpened

C2_Witness == pc = "done" /\ outputOpened /\ output # None

\* C3: every aborting error ends the process with a non-zero exit status;
\* the status is zero only when the FeatureCollection was written.
C3_NonZeroOnAbort == pc = "done" => (exitStatus = 0 <=> output # None)

\* C4: the written collection has len(points) + len(lines) Features: one
\* per point in discovery order, then one per line in discovery order; the
\* discovery order is that of the depth-first walk, not a sorted one.
C4_PointsThenLines ==
    /\ \A i \in 1..Len(found) : \A j \in i..Len(found) : PathLE(found[i].path, found[j].path)
    /\ output # None =>
        LET f == output.features
            fp == SelectSeq(found, LAMBDA e : e.rec.type = "Point")
            fl == SelectSeq(found, LAMBDA e : e.rec.type = "LineString")
        IN  /\ Len(f) = Len(points) + Len(lines)
            /\ Len(fp) = Len(points)
            /\ Len(fl) = Len(lines)
            /\ \A i \in 1..Len(fp) :
                /\ f[i].geometry.type = "Point"
                /\ f[i].geometry.coordinates = fp[i].rec.coordinates
                /\ f[i].properties = [timestamp |-> fp[i].rec.timestamp]
            /\ \A i \in 1..Len(fl) :
                /\ f[Len(fp) + i].geometry.type = "LineString"
                /\ f[Len(fp) + i].geometry.coordinates = fl[i].rec.coordinates
                /\ f[Len(fp) + i].properties = fl[i].rec.timestamps

C4_Witness ==
    /\ output # None
    /\ Len(points) >= 2
    /\ Len(lines) >= 1
    /\ points[1].coordinates # points[2].coordinates

\* C5: a timeline path whose elements all carry a well-formed "point" gives
\* one Line with every element's [lng, lat] in path order and the dict's
\* startTime / endTime (the epoch default when absent), and one Point per
\* element that also carries "time", with that element's pair and time;
\* there is no Line when no pair was parsed.
C5_TimelinePathRecords ==
    PathVisit =>
        LET el == PathItems
            timed == SelectSeq(el, HasTime)
        IN  /\ (\A i \in 1..Len(el) : GoodElem(el[i])) =>
                /\ ~last.raised
                /\ last.lns =
                    IF el = <<>> THEN <<>>
                    ELSE <<LineRec([i \in 1..Len(el) |-> ElemLngLat(el[i])],
                                   Get(last.node, "startTime", EpochDefault),
                                   Get(last.node, "endTime", EpochDefault))>>
                /\ last.pts = [i \in 1..Len(timed) |->
                                  PointRec(ElemLngLat(timed[i]), Subscript(timed[i], "time"))]
            /\ (\A i \in 1..Len(el) : ~GoodElem(el[i])) => last.lns = <<>>

C5_Witness ==
    /\ PathVisit
    /\ Len(PathItems) = 2
    /\ \A i \in 1..2 : GoodElem(PathItems[i])
    /\ ~HasTime(PathItems[1])
    /\ HasTime(PathItems[2])
    /\ Len(last.lns) = 1
    /\ Len(last.pts) = 1

\* C6 as stated: one call of _traverse never adds records to both points
\* and lines.
C6_AtMostOneSequence == ~(last.pts # <<>> /\ last.lns # <<>>)

\* C6 as amended: a dict with both E7 keys, or with placeLocation.latLng,
\* adds at most one record, and to points only; a dict that adds to both
\* sequences has a timelinePath and neither of those; a dict without any of
\* the three adds nothing.
C6_OnlyPathNodesFeedBoth ==
    last.node.t = "obj" =>
        /\ (HasE7Keys(last.node) \/ HasLatLng(last.node)) =>
            Len(last.pts) <= 1 /\ last.lns = <<>>
        /\ (last.pts # <<>> /\ last.lns # <<>>) =>
            /\ HasKey(last.node, "timelinePath")
            /\ ~HasE7Keys(last.node)
            /\ ~HasLatLng(last.node)
        /\ (~HasE7Keys(last.node) /\ ~HasLatLng(last.node)
                /\ ~HasKey(last.node, "timelinePath")) =>
            last.pts = <<>> /\ last.lns = <<>>

C6_Witness ==
    /\ NumericE7(last.node)
    /\ HasKey(last.node, "timelinePath")
    /\ Subscript(last.node, "timelinePath").t = "list"
    /\ \E i \in 1..Len(Subscript(last.node, "timelinePath").items) :
        LET e == Subscript(last.node, "timelinePath").items[i] IN GoodElem(e) /\ HasTime(e)
    /\ Len(last.pts) = 1
    /\ last.lns = <<>>

\* C7: a path element that carries "time" while no pair of the same path
\* has parsed yet is skipped: no Point for it, no error, the loop goes on.
C7_TimeWithoutPairSkipped ==
    (PathVisit /\ \A i \in 1..Len(PathItems) : PathItems[i].t = "obj") =>
        LET el == PathItems
            parsedBy(i) == \E j \in 1..i : GoodElem(el[j])
        IN  (\E i \in 1..Len(el) : HasTime(el[i]) /\ ~parsedBy(i)) =>
                /\ ~last.raised
                /\ Len(last.pts) =
                    Cardinality({i \in 1..Len(el) : HasTime(el[i]) /\ parsedBy(i)})

\* C8: only the first matching shape is applied: a dict with both E7 keys
\* and a timelinePath adds exactly one Point and no Line; a dict with
\* placeLocation.latLng and a timelinePath adds at most the place Point,
\* nothing when its latLng does not parse, and no Line.
C8_FirstShapeOnly ==
    HasKey(last.node, "timelinePath") =>
        /\ HasE7Keys(last.node) => Len(last.pts) = 1 /\ last.lns = <<>>
        /\ (~HasE7Keys(last.node) /\ HasLatLng(last.node)) =>
            LET ll == Subscript(Subscript(last.node, "placeLocation"), "latLng") IN
                /\ last.lns = <<>>
                /\ IF IsGood(ll)
                   THEN last.pts = <<PointRec(<<Degrees(ll).lng, Degrees(ll).lat>>,
                                              Get(last.node, "startTime", EpochDefault))>>
                   ELSE last.pts = <<>>

\* C8 for E7 values that are numbers: then the claim's statement holds
C8_FirstShapeOnlyNumeric ==
    (HasKey(last.node, "timelinePath") /\ (HasE7Keys(last.node) => NumericE7(last.node)))
        => C8_FirstShapeOnly

\* C9: when the walk is over, every object, list element and value of the
\* document was visited exactly once, and every dict with E7 coordinates,
\* wherever it is nested, has its Point emitted exactly once.
C9_WalkComplete ==
    ((pc = "write" \/ pc = "done") /\ data # Absent) =>
        /\ Len(visited) = Cardinality(AllPaths(data, <<>>))
        /\ {visited[i] : i \in 1..Len(visited)} = AllPaths(data, <<>>)
        /\ \A p \in AllPaths(data, <<>>) :
            NumericE7(NodeAt(data, p)) =>
                Cardinality({i \in 1..Len(found) :
                    /\ found[i].path = p
                    /\ found[i].rec.type = "Point"
                    /\ found[i].rec.coordinates =
                        <<DivE7(Subscript(NodeAt(data, p), "longitudeE7")),
                          DivE7(Subscript(NodeAt(data, p), "latitudeE7"))>>}) = 1

\* C9 for walks in which no call raised: then the claim's statement holds
C9_WalkCompleteUnlessRaised == last.raised \/ C9_WalkComplete

\* C10: whatever the types of the values under the recognised keys, no call
\* of _traverse raises.
C10_NeverRaises == ~last.raised
====
